---- MODULE Spec2Model ----
(***************************************************************************)
(* The continuous voice-command session controller (VoiceCommands), manual *)
(* capability wiring variant, src/src/components/AIOptimizer.tsx:202-657,  *)
(* together with the recognition, speech-output and permission            *)
(* capabilities it drives.                                                 *)
(*                                                                         *)
(* One action is one handler run to completion, the state updates it      *)
(* batches and the effect of lines 326-329 included.  The handlers         *)
(* registered by the mount effect (lines 227-310, dependency list [])      *)
(* close over the values of the first render, so the `isListening` they    *)
(* read is the initial useState value: see ClosureIsListening.             *)
(***************************************************************************)
EXTENDS Integers, Sequences, FiniteSets, TLC

VARIABLES
    \* component state (useState, lines 213-220)
    isListening, isSpeaking, microphoneStatus, lastCommand, commandHistory,
    isSupported, errorMessage, permissionStatus,
    \* refs (lines 222-225)
    recognitionRef, synthRef, shouldRestartRef, restartTimeoutRef,
    \* whether the component is mounted: after the cleanup of lines 312-323 the
    \* handlers still run, and their state updates are dropped
    mounted,
    \* number of restart timers (line 287) set and neither fired nor cleared
    restartTimers,
    \* the recognition capability: "inactive", "starting" (start() accepted,
    \* onstart not delivered yet) or "active"
    recState,
    \* the speech-output capability: its utterance queue (head = in flight) and
    \* whether the head's start event was delivered
    synthQueue, uttStarted,
    \* the platform's consent state and the state of the permission query
    platformPerm, permissionQuery,
    \* number of pending 1000 ms timeouts set by onresult (lines 252-256)
    processingTimers,
    \* observation of the last handler: which one ran, and the calls it made to
    \* the recognition capability, the host callback and the speech capability
    event, recCalls, hostCalls, synthCalls,
    \* every transcript delivered so far, in arrival order
    arrived,
    \* the wrapper-based variant (src/unnamed/part_001): the `listening` flag
    \* returned by useSpeechRecognition (line 17); the handle-based component
    \* has no such hook and leaves it alone
    listening

vars == << isListening, isSpeaking, microphoneStatus, lastCommand, commandHistory,
           isSupported, errorMessage, permissionStatus, recognitionRef, synthRef,
           shouldRestartRef, restartTimeoutRef, mounted, restartTimers, recState,
           synthQueue, uttStarted, platformPerm, permissionQuery,
           processingTimers, event, recCalls, hostCalls, synthCalls, arrived,
           listening >>

-----------------------------------------------------------------------------
(* Bounds of the model *)

\* transcripts delivered in one run of the session specification
MaxTranscripts == 1
\* transcripts delivered in one run of the command specification
MaxCmdTranscripts == 2
\* transcripts delivered in one run of the history specification
MaxHistTranscripts == 6
\* transcripts delivered in one run of the teardown specification
MaxTeardownTranscripts == 1
\* transcripts delivered in one run of the wrapper-variant specification
MaxWrapperTranscripts == 3

\* transcripts of the session specification: a rule 1-6 match, help, no match
Texts == { "Add Cone", "can you help", "hello" }

\* transcripts of the command specification: every rule, both triggers of a
\* rule, upper case, several rules in one text in either order, no rule
AllTexts == { "please place cone here", "Add Cone", "draw line",
              "create barrier and save", "optimize weather", "Improve",
              "what's the weather", "forecast traffic", "congestion",
              "export help", "SAVE", "can you help", "commands",
              "help me place cone", "traffic near the draw line", "hello", "" }

\* transcripts of the history specification
HistTexts == { "save", "hello" }

\* error codes the recognition capability reports
ErrorCodes == { "not-allowed", "service-not-allowed", "network", "no-speech",
                "aborted" }

-----------------------------------------------------------------------------
(* Strings *)

LowerChar(c) ==
    CASE c = "A" -> "a" [] c = "B" -> "b" [] c = "C" -> "c" [] c = "D" -> "d"
      [] c = "E" -> "e" [] c = "F" -> "f" [] c = "G" -> "g" [] c = "H" -> "h"
      [] c = "I" -> "i" [] c = "J" -> "j" [] c = "K" -> "k" [] c = "L" -> "l"
      [] c = "M" -> "m" [] c = "N" -> "n" [] c = "O" -> "o" [] c = "P" -> "p"
      [] c = "Q" -> "q" [] c = "R" -> "r" [] c = "S" -> "s" [] c = "T" -> "t"
      [] c = "U" -> "u" [] c = "V" -> "v" [] c = "W" -> "w" [] c = "X" -> "x"
      [] c = "Y" -> "y" [] c = "Z" -> "z" [] OTHER -> c

RECURSIVE toLowerCase(_)
toLowerCase(s) ==
    IF Len(s) = 0 THEN ""
    ELSE LowerChar(SubSeq(s, 1, 1)) \o toLowerCase(SubSeq(s, 2, Len(s)))

\* String.prototype.includes
includes(s, t) ==
    \E i \in 1..(Len(s) - Len(t) + 1) : SubSeq(s, i, i + Len(t) - 1) = t

-----------------------------------------------------------------------------
(* handleVoiceCommand, lines 346-375 *)

\* Array.prototype.slice(0, n)
slice0(a, n) ==
    SubSeq(a, 1, IF Len(a) < n THEN Len(a) ELSE n)

\* HistoryInsert keeping one entry too many
HistoryInsert_Slice5(prev, command) ==
    <<command>> \o slice0(prev, 5)

\* setCommandHistory(prev => [command, ...prev.slice(0, 4)]), line 349
HistoryInsert(prev, command) ==
    <<command>> \o slice0(prev, 4)

\* the { type: ... } argument of onCommand, as its key/value pairs
TypeParams(v) ==
    << <<"type", v>> >>

\* CommandBranch with the help test moved in front of the save test
CommandBranch_HelpBeforeSave(lowerCommand) ==
    IF includes(lowerCommand, "place cone") \/ includes(lowerCommand, "add cone")
    THEN 1
    ELSE IF includes(lowerCommand, "draw line")
            \/ includes(lowerCommand, "create barrier")
    THEN 2
    ELSE IF includes(lowerCommand, "optimize") \/ includes(lowerCommand, "improve")
    THEN 3
    ELSE IF includes(lowerCommand, "weather") \/ includes(lowerCommand, "forecast")
    THEN 4
    ELSE IF includes(lowerCommand, "traffic")
            \/ includes(lowerCommand, "congestion")
    THEN 5
    ELSE IF includes(lowerCommand, "help") \/ includes(lowerCommand, "commands")
    THEN 7
    ELSE IF includes(lowerCommand, "save") \/ includes(lowerCommand, "export")
    THEN 6
    ELSE 8

\* the branch of the if / else-if chain of lines 352-374 taken for the
\* lower-cased transcript: 1..7 in source order, 8 for the final else
CommandBranch(lowerCommand) ==
    IF includes(lowerCommand, "place cone") \/ includes(lowerCommand, "add cone")
    THEN 1
    ELSE IF includes(lowerCommand, "draw line")
            \/ includes(lowerCommand, "create barrier")
    THEN 2
    ELSE IF includes(lowerCommand, "optimize") \/ includes(lowerCommand, "improve")
    THEN 3
    ELSE IF includes(lowerCommand, "weather") \/ includes(lowerCommand, "forecast")
    THEN 4
    ELSE IF includes(lowerCommand, "traffic")
            \/ includes(lowerCommand, "congestion")
    THEN 5
    ELSE IF includes(lowerCommand, "save") \/ includes(lowerCommand, "export")
    THEN 6
    ELSE IF includes(lowerCommand, "help") \/ includes(lowerCommand, "commands")
    THEN 7
    ELSE 8

\* BranchHostCalls with the params of place-cone pasted into start-line
BranchHostCalls_PastedParams(b) ==
    CASE b = 1 -> << [command |-> "place-cone", params |-> TypeParams("warning")] >>
      [] b = 2 -> << [command |-> "start-line", params |-> TypeParams("warning")] >>
      [] b = 3 -> << [command |-> "optimize-zone", params |-> <<>>] >>
      [] b = 4 -> << [command |-> "check-weather", params |-> <<>>] >>
      [] b = 5 -> << [command |-> "analyze-traffic", params |-> <<>>] >>
      [] b = 6 -> << [command |-> "save-zone", params |-> <<>>] >>
      [] OTHER -> << >>

\* BranchHostCalls with the help branch notifying the host too
BranchHostCalls_HelpForwarded(b) ==
    CASE b = 1 -> << [command |-> "place-cone", params |-> TypeParams("warning")] >>
      [] b = 2 -> << [command |-> "start-line", params |-> TypeParams("barrier")] >>
      [] b = 3 -> << [command |-> "optimize-zone", params |-> <<>>] >>
      [] b = 4 -> << [command |-> "check-weather", params |-> <<>>] >>
      [] b = 5 -> << [command |-> "analyze-traffic", params |-> <<>>] >>
      [] b = 6 -> << [command |-> "save-zone", params |-> <<>>] >>
      [] b = 7 -> << [command |-> "help", params |-> <<>>] >>
      [] OTHER -> << >>

\* BranchHostCalls with the final else notifying the host too
BranchHostCalls_ElseForwarded(b) ==
    CASE b = 1 -> << [command |-> "place-cone", params |-> TypeParams("warning")] >>
      [] b = 2 -> << [command |-> "start-line", params |-> TypeParams("barrier")] >>
      [] b = 3 -> << [command |-> "optimize-zone", params |-> <<>>] >>
      [] b = 4 -> << [command |-> "check-weather", params |-> <<>>] >>
      [] b = 5 -> << [command |-> "analyze-traffic", params |-> <<>>] >>
      [] b = 6 -> << [command |-> "save-zone", params |-> <<>>] >>
      [] b = 7 -> << >>
      [] OTHER -> << [command |-> "unrecognized", params |-> <<>>] >>

\* the onCommand calls a branch makes, each the argument list of the call;
\* params <<>> is the omitted second argument
BranchHostCalls(b) ==
    CASE b = 1 -> << [command |-> "place-cone", params |-> TypeParams("warning")] >>
      [] b = 2 -> << [command |-> "start-line", params |-> TypeParams("barrier")] >>
      [] b = 3 -> << [command |-> "optimize-zone", params |-> <<>>] >>
      [] b = 4 -> << [command |-> "check-weather", params |-> <<>>] >>
      [] b = 5 -> << [command |-> "analyze-traffic", params |-> <<>>] >>
      [] b = 6 -> << [command |-> "save-zone", params |-> <<>>] >>
      [] OTHER -> << >>

\* the text a branch passes to speakResponse
BranchPhrase(b) ==
    CASE b = 1 -> "Placing warning cone at current location"
      [] b = 2 -> "Starting line drawing mode"
      [] b = 3 -> "Running AI optimization on current zone"
      [] b = 4 -> "Checking weather conditions for construction zone"
      [] b = 5 -> "Analyzing current traffic patterns"
      [] b = 6 -> "Saving current zone configuration"
      [] b = 7 -> "Available commands: place cone, draw line, optimize zone, check weather, analyze traffic, save zone"
      [] OTHER -> "Command not recognized. Say help for available commands."

-----------------------------------------------------------------------------
(* The values the mount effect's handlers close over *)

\* `isListening` as read inside recognition.onresult, recognition.onend and
\* the restart timer callback: the handlers are created once, by the effect
\* with dependency list [] (line 324), in the scope of the first render,
\* where isListening is the useState(false) of line 213
ClosureIsListening == FALSE

\* SyncRestartRef with the effect assigning the isListening of the previous
\* render
SyncRestartRef_Stale(direct, newIsListening) ==
    IF newIsListening # isListening THEN isListening ELSE direct

\* the effect of lines 326-329 after a handler that assigned `direct` to
\* shouldRestartRef.current and left isListening at `newIsListening`: the
\* effect runs only when isListening changed
SyncRestartRef(direct, newIsListening) ==
    IF newIsListening # isListening THEN newIsListening ELSE direct

\* a state setter called with `new` where the state holds `old`: the update
\* of an unmounted component is dropped
SetState(new, old) ==
    IF mounted THEN new ELSE old

\* StartBlocked refusing every state but 'granted'
StartBlocked_NotGranted(status) ==
    status # "granted"

\* StartBlocked with the test of line 405 missing
StartBlocked_Never(status) ==
    FALSE

\* the permission test of toggleListening's start branch, line 405
StartBlocked(status) ==
    status = "denied"

\* IsPermissionError with a 'network' label fallen through into the
\* permission cases
IsPermissionError_Network(code) ==
    code \in { "not-allowed", "service-not-allowed", "network" }

\* IsPermissionError with the second case label forgotten
IsPermissionError_OneLabel(code) ==
    code = "not-allowed"

\* the case labels of lines 264-265
IsPermissionError(code) ==
    code \in { "not-allowed", "service-not-allowed" }

\* setErrorMessage of the switch of lines 263-280
ErrorText(code) ==
    CASE IsPermissionError(code) ->
             "Microphone access denied. Please enable microphone permissions."
      [] code = "network" ->
             "Network error. Please check your internet connection."
      [] code = "no-speech" ->
             "No speech detected. Try speaking closer to the microphone."
      [] OTHER -> "Speech recognition error: " \o code

-----------------------------------------------------------------------------
(* State after the first render and the mount effect, lines 213-310 *)

Init ==
    /\ isListening = FALSE
    /\ isSpeaking = FALSE
    /\ microphoneStatus = "idle"
    /\ lastCommand = ""
    /\ commandHistory = << >>
    \* line 232: both window.SpeechRecognition and window.speechSynthesis exist
    /\ isSupported \in BOOLEAN
    /\ errorMessage = ""
    /\ permissionStatus = "unknown"
    \* lines 234 and 306: the refs are set inside the `if` of line 232
    /\ recognitionRef = (IF isSupported THEN "recognition" ELSE "null")
    /\ synthRef = (IF isSupported THEN "speechSynthesis" ELSE "null")
    /\ shouldRestartRef = FALSE
    /\ restartTimeoutRef = "null"
    /\ mounted = TRUE
    /\ restartTimers = 0
    /\ recState = "inactive"
    /\ synthQueue = << >>
    /\ uttStarted = FALSE
    /\ platformPerm \in { "granted", "denied", "prompt" }
    \* line 333: checkMicrophonePermissions runs only when supported, and
    \* queries only when navigator.permissions exists
    /\ permissionQuery \in (IF isSupported THEN { "pending", "none" } ELSE { "none" })
    /\ processingTimers = 0
    /\ event = << "mount" >>
    /\ recCalls = << >>
    /\ hostCalls = << >>
    /\ synthCalls = << >>
    /\ arrived = << >>
    /\ listening = FALSE

-----------------------------------------------------------------------------
(* checkMicrophonePermissions, lines 331-344 *)

\* the awaited query settles: it resolves (state read, onchange registered)
\* or rejects (caught, line 341)
PermissionQuerySettles ==
    /\ permissionQuery = "pending"
    /\ \/ /\ permissionQuery' = "subscribed"
          /\ permissionStatus' = SetState(platformPerm, permissionStatus)
          /\ event' = << "permission-query", "resolved" >>
       \/ /\ permissionQuery' = "none"
          /\ permissionStatus' = permissionStatus
          /\ event' = << "permission-query", "rejected" >>
    /\ recCalls' = << >>
    /\ hostCalls' = << >>
    /\ synthCalls' = << >>
    /\ UNCHANGED << isListening, isSpeaking, microphoneStatus, lastCommand,
                    commandHistory, isSupported, errorMessage, recognitionRef,
                    synthRef, shouldRestartRef, restartTimeoutRef, mounted,
                    restartTimers, recState, synthQueue, uttStarted,
                    platformPerm, processingTimers, arrived >>
    /\ UNCHANGED listening

\* the platform's consent changes to s; permission.onchange (lines 337-339)
\* runs when it was registered
PermissionChange(s) ==
    /\ isSupported
    /\ s # platformPerm
    /\ platformPerm' = s
    /\ permissionStatus' =
           IF permissionQuery = "subscribed"
           THEN SetState(s, permissionStatus)
           ELSE permissionStatus
    /\ event' = << "permission-change", s >>
    /\ recCalls' = << >>
    /\ hostCalls' = << >>
    /\ synthCalls' = << >>
    /\ UNCHANGED << isListening, isSpeaking, microphoneStatus, lastCommand,
                    commandHistory, isSupported, errorMessage, recognitionRef,
                    synthRef, shouldRestartRef, restartTimeoutRef, mounted,
                    restartTimers, recState, synthQueue, uttStarted,
                    permissionQuery, processingTimers, arrived >>
    /\ UNCHANGED listening

-----------------------------------------------------------------------------
(* toggleListening, lines 388-423 *)

\* the catch block of lines 415-421 with the resets of lines 418-419 missing:
\* the values set at lines 410-411 before start() raised remain
StartFailed_KeepsIntent ==
    [ microphoneStatus |-> "error", isListening |-> TRUE, shouldRestart |-> TRUE,
      errorMessage |-> "Failed to start voice recognition. Please try again." ]

\* the catch block of toggleListening, lines 415-421: what it leaves in the
\* state after start() raised
StartFailed ==
    [ microphoneStatus |-> "error", isListening |-> FALSE, shouldRestart |-> FALSE,
      errorMessage |-> "Failed to start voice recognition. Please try again." ]

\* ToggleListening with the test of line 389 missing
ToggleListening_NoSupportTest ==
    /\ mounted
    /\ event' = << "toggleListening" >>
    /\ hostCalls' = << >>
    /\ synthCalls' = << >>
    /\ IF isListening
       THEN \* lines 391-400
            /\ isListening' = FALSE
            /\ shouldRestartRef' = SyncRestartRef(FALSE, FALSE)
            /\ microphoneStatus' = "idle"
            /\ recCalls' = << "stop" >>
            /\ restartTimeoutRef' =
                   IF restartTimeoutRef = "pending" THEN "done" ELSE restartTimeoutRef
            /\ restartTimers' =
                   IF restartTimeoutRef = "pending"
                   THEN restartTimers - 1 ELSE restartTimers
            /\ UNCHANGED << errorMessage, recState >>
       ELSE IF StartBlocked(permissionStatus)
       THEN \* lines 405-408
            /\ errorMessage' = "Microphone access denied. Please enable microphone permissions in your browser settings."
            /\ recCalls' = << >>
            /\ UNCHANGED << isListening, shouldRestartRef, microphoneStatus,
                            restartTimeoutRef, restartTimers, recState >>
       ELSE IF recState = "inactive"
       THEN \* lines 410-414, start() accepted
            /\ isListening' = TRUE
            /\ shouldRestartRef' = SyncRestartRef(TRUE, TRUE)
            /\ microphoneStatus' = "listening"
            /\ errorMessage' = ""
            /\ recCalls' = << "start" >>
            /\ recState' = "starting"
            /\ UNCHANGED << restartTimeoutRef, restartTimers >>
       ELSE \* lines 410-414 then 415-421: start() raises InvalidStateError
            \* because the previous turn has not ended
            /\ isListening' = StartFailed.isListening
            /\ shouldRestartRef' =
                   SyncRestartRef(StartFailed.shouldRestart, StartFailed.isListening)
            /\ microphoneStatus' = StartFailed.microphoneStatus
            /\ errorMessage' = StartFailed.errorMessage
            /\ recCalls' = << "start-raised" >>
            /\ UNCHANGED << restartTimeoutRef, restartTimers, recState >>
    /\ UNCHANGED << isSpeaking, lastCommand, commandHistory, isSupported,
                    permissionStatus, recognitionRef, synthRef, mounted,
                    synthQueue, uttStarted, platformPerm, permissionQuery,
                    processingTimers, arrived >>
    /\ UNCHANGED listening

\* the function, whoever calls it
ToggleListening ==
    /\ mounted
    /\ event' = << "toggleListening" >>
    /\ hostCalls' = << >>
    /\ synthCalls' = << >>
    /\ IF ~isSupported \/ recognitionRef = "null"
       THEN \* line 389
            /\ recCalls' = << >>
            /\ UNCHANGED << isListening, shouldRestartRef, microphoneStatus,
                            errorMessage, restartTimeoutRef, restartTimers,
                            recState >>
       ELSE IF isListening
       THEN \* lines 391-400
            /\ isListening' = FALSE
            /\ shouldRestartRef' = SyncRestartRef(FALSE, FALSE)
            /\ microphoneStatus' = "idle"
            /\ recCalls' = << "stop" >>
            /\ restartTimeoutRef' =
                   IF restartTimeoutRef = "pending" THEN "done" ELSE restartTimeoutRef
            /\ restartTimers' =
                   IF restartTimeoutRef = "pending"
                   THEN restartTimers - 1 ELSE restartTimers
            /\ UNCHANGED << errorMessage, recState >>
       ELSE IF StartBlocked(permissionStatus)
       THEN \* lines 405-408
            /\ errorMessage' = "Microphone access denied. Please enable microphone permissions in your browser settings."
            /\ recCalls' = << >>
            /\ UNCHANGED << isListening, shouldRestartRef, microphoneStatus,
                            restartTimeoutRef, restartTimers, recState >>
       ELSE IF recState = "inactive"
       THEN \* lines 410-414, start() accepted
            /\ isListening' = TRUE
            /\ shouldRestartRef' = SyncRestartRef(TRUE, TRUE)
            /\ microphoneStatus' = "listening"
            /\ errorMessage' = ""
            /\ recCalls' = << "start" >>
            /\ recState' = "starting"
            /\ UNCHANGED << restartTimeoutRef, restartTimers >>
       ELSE \* lines 410-414 then 415-421: start() raises InvalidStateError
            \* because the previous turn has not ended
            /\ isListening' = StartFailed.isListening
            /\ shouldRestartRef' =
                   SyncRestartRef(StartFailed.shouldRestart, StartFailed.isListening)
            /\ microphoneStatus' = StartFailed.microphoneStatus
            /\ errorMessage' = StartFailed.errorMessage
            /\ recCalls' = << "start-raised" >>
            /\ UNCHANGED << restartTimeoutRef, restartTimers, recState >>
    /\ UNCHANGED << isSpeaking, lastCommand, commandHistory, isSupported,
                    permissionStatus, recognitionRef, synthRef, mounted,
                    synthQueue, uttStarted, platformPerm, permissionQuery,
                    processingTimers, arrived >>
    /\ UNCHANGED listening

\* a click on the main voice button (lines 619-627), which is rendered only
\* when supported (lines 490-501) and disabled while permissionStatus is
\* 'denied' (line 623)
ClickVoiceButton ==
    /\ isSupported
    /\ permissionStatus # "denied"
    /\ ToggleListening

-----------------------------------------------------------------------------
(* The cleanup of the mount effect, lines 312-323 *)

\* Unmount with the recognition.stop() of line 315 forgotten
Unmount_NoStop(raises) ==
    /\ mounted
    /\ mounted' = FALSE
    /\ raises = "stop" => recognitionRef # "null"
    /\ raises = "cancel" => synthRef # "null"
    \* lines 313-316
    /\ shouldRestartRef' =
           IF recognitionRef # "null" THEN FALSE ELSE shouldRestartRef
    /\ recCalls' = << >>
    \* lines 317-319
    /\ synthCalls' =
           IF synthRef = "null" \/ raises = "stop" THEN << >>
           ELSE IF raises = "cancel" THEN << << "cancel-raised" >> >>
           ELSE << << "cancel" >> >>
    /\ IF synthRef # "null" /\ raises = "none"
       THEN synthQueue' = << >> /\ uttStarted' = FALSE
       ELSE UNCHANGED << synthQueue, uttStarted >>
    \* lines 320-322
    /\ IF raises = "none" /\ restartTimeoutRef = "pending"
       THEN restartTimeoutRef' = "done" /\ restartTimers' = restartTimers - 1
       ELSE UNCHANGED << restartTimeoutRef, restartTimers >>
    /\ event' = << "unmount", raises >>
    /\ hostCalls' = << >>
    /\ UNCHANGED << isListening, isSpeaking, microphoneStatus, lastCommand,
                    commandHistory, isSupported, errorMessage, permissionStatus,
                    recognitionRef, synthRef, recState, platformPerm,
                    permissionQuery, processingTimers, arrived >>
    /\ UNCHANGED listening

\* `raises` names the release that raises, "none" when none does: the
\* statements after a raising call are not reached
Unmount(raises) ==
    /\ mounted
    /\ mounted' = FALSE
    /\ raises = "stop" => recognitionRef # "null"
    /\ raises = "cancel" => synthRef # "null"
    \* lines 313-316
    /\ shouldRestartRef' =
           IF recognitionRef # "null" THEN FALSE ELSE shouldRestartRef
    /\ recCalls' =
           IF recognitionRef = "null" THEN << >>
           ELSE IF raises = "stop" THEN << "stop-raised" >>
           ELSE << "stop" >>
    \* lines 317-319
    /\ synthCalls' =
           IF synthRef = "null" \/ raises = "stop" THEN << >>
           ELSE IF raises = "cancel" THEN << << "cancel-raised" >> >>
           ELSE << << "cancel" >> >>
    /\ IF synthRef # "null" /\ raises = "none"
       THEN synthQueue' = << >> /\ uttStarted' = FALSE
       ELSE UNCHANGED << synthQueue, uttStarted >>
    \* lines 320-322
    /\ IF raises = "none" /\ restartTimeoutRef = "pending"
       THEN restartTimeoutRef' = "done" /\ restartTimers' = restartTimers - 1
       ELSE UNCHANGED << restartTimeoutRef, restartTimers >>
    /\ event' = << "unmount", raises >>
    /\ hostCalls' = << >>
    /\ UNCHANGED << isListening, isSpeaking, microphoneStatus, lastCommand,
                    commandHistory, isSupported, errorMessage, permissionStatus,
                    recognitionRef, synthRef, recState, platformPerm,
                    permissionQuery, processingTimers, arrived >>
    /\ UNCHANGED listening

-----------------------------------------------------------------------------
(* The recognition handlers, lines 241-304 *)

\* OnStart that also resets the last command
OnStart_ClearsLastCommand ==
    /\ recState = "starting"
    /\ recState' = "active"
    /\ microphoneStatus' = SetState("listening", microphoneStatus)
    /\ errorMessage' = SetState("", errorMessage)
    /\ lastCommand' = SetState("", lastCommand)
    /\ event' = << "onstart" >>
    /\ recCalls' = << >>
    /\ hostCalls' = << >>
    /\ synthCalls' = << >>
    /\ UNCHANGED << isListening, isSpeaking, commandHistory,
                    isSupported, permissionStatus, recognitionRef, synthRef,
                    shouldRestartRef, restartTimeoutRef, mounted, restartTimers,
                    synthQueue, uttStarted, platformPerm, permissionQuery,
                    processingTimers, arrived, listening >>

\* recognition.onstart, lines 241-244
OnStart ==
    /\ recState = "starting"
    /\ recState' = "active"
    /\ microphoneStatus' = SetState("listening", microphoneStatus)
    /\ errorMessage' = SetState("", errorMessage)
    /\ event' = << "onstart" >>
    /\ recCalls' = << >>
    /\ hostCalls' = << >>
    /\ synthCalls' = << >>
    /\ UNCHANGED << isListening, isSpeaking, lastCommand, commandHistory,
                    isSupported, permissionStatus, recognitionRef, synthRef,
                    shouldRestartRef, restartTimeoutRef, mounted, restartTimers,
                    synthQueue, uttStarted, platformPerm, permissionQuery,
                    processingTimers, arrived >>
    /\ UNCHANGED listening

\* recognition.onresult with transcript `result`, lines 246-257, and the
\* handleVoiceCommand (346-375) and speakResponse (377-386) it calls
OnResult(result) ==
    /\ recState = "active"
    /\ microphoneStatus' = SetState("processing", microphoneStatus)
    /\ lastCommand' = SetState(result, lastCommand)
    /\ commandHistory' = SetState(HistoryInsert(commandHistory, result), commandHistory)
    /\ LET lowerCommand == toLowerCase(result)
           branch == CommandBranch(lowerCommand)
       IN  /\ hostCalls' = BranchHostCalls(branch)
           \* synthRef.current is set whenever the handlers exist (line 234)
           /\ synthCalls' = << << "speak", BranchPhrase(branch) >> >>
           /\ synthQueue' = Append(synthQueue, BranchPhrase(branch))
    /\ processingTimers' = processingTimers + 1
    /\ event' = << "onresult", result >>
    /\ recCalls' = << >>
    /\ arrived' = Append(arrived, result)
    /\ UNCHANGED << isListening, isSpeaking, isSupported, errorMessage,
                    permissionStatus, recognitionRef, synthRef, shouldRestartRef,
                    restartTimeoutRef, mounted, restartTimers, recState,
                    uttStarted, platformPerm, permissionQuery >>
    /\ UNCHANGED listening

\* the timeout callback of lines 252-256
ProcessingTimeout ==
    /\ processingTimers > 0
    /\ processingTimers' = processingTimers - 1
    /\ microphoneStatus' =
           IF ClosureIsListening
           THEN SetState("listening", microphoneStatus)
           ELSE microphoneStatus
    /\ event' = << "processing-timeout" >>
    /\ recCalls' = << >>
    /\ hostCalls' = << >>
    /\ synthCalls' = << >>
    /\ UNCHANGED << isListening, isSpeaking, lastCommand, commandHistory,
                    isSupported, errorMessage, permissionStatus, recognitionRef,
                    synthRef, shouldRestartRef, restartTimeoutRef, mounted,
                    restartTimers, recState, synthQueue, uttStarted,
                    platformPerm, permissionQuery, arrived >>
    /\ UNCHANGED listening

\* recognition.onerror with event.error = code, lines 259-281
OnError(code) ==
    /\ recState # "inactive"
    /\ microphoneStatus' = SetState("error", microphoneStatus)
    /\ errorMessage' = SetState(ErrorText(code), errorMessage)
    /\ IF IsPermissionError(code)
       THEN /\ permissionStatus' = SetState("denied", permissionStatus)
            /\ isListening' = SetState(FALSE, isListening)
            /\ shouldRestartRef' = SyncRestartRef(FALSE, SetState(FALSE, isListening))
       ELSE /\ UNCHANGED << permissionStatus, isListening >>
            /\ shouldRestartRef' = SyncRestartRef(shouldRestartRef, isListening)
    /\ event' = << "onerror", code >>
    /\ recCalls' = << >>
    /\ hostCalls' = << >>
    /\ synthCalls' = << >>
    /\ UNCHANGED << isSpeaking, lastCommand, commandHistory, isSupported,
                    recognitionRef, synthRef, restartTimeoutRef, mounted,
                    restartTimers, recState, synthQueue, uttStarted,
                    platformPerm, permissionQuery, processingTimers, arrived >>
    /\ UNCHANGED listening

\* OnEnd without the test of line 285: the restart is always scheduled
OnEnd_Unguarded ==
    /\ recState # "inactive"
    /\ recState' = "inactive"
    /\ restartTimeoutRef' = "pending"
    /\ restartTimers' = restartTimers + 1
    /\ shouldRestartRef' = SyncRestartRef(shouldRestartRef, isListening)
    /\ UNCHANGED << isListening, microphoneStatus >>
    /\ event' = << "onend" >>
    /\ recCalls' = << >>
    /\ hostCalls' = << >>
    /\ synthCalls' = << >>
    /\ UNCHANGED << isSpeaking, lastCommand, commandHistory, isSupported,
                    errorMessage, permissionStatus, recognitionRef, synthRef,
                    mounted, synthQueue, uttStarted, platformPerm,
                    permissionQuery, processingTimers, arrived, listening >>

\* OnEnd whose else branch lacks setMicrophoneStatus('idle') (line 301)
OnEnd_KeepsStatus ==
    /\ recState # "inactive"
    /\ recState' = "inactive"
    /\ IF shouldRestartRef /\ ClosureIsListening
       THEN /\ restartTimeoutRef' = "pending"
            /\ restartTimers' = restartTimers + 1
            /\ shouldRestartRef' = SyncRestartRef(shouldRestartRef, isListening)
            /\ UNCHANGED << isListening, microphoneStatus >>
       ELSE /\ isListening' = SetState(FALSE, isListening)
            /\ microphoneStatus' = microphoneStatus
            /\ shouldRestartRef' = SyncRestartRef(FALSE, SetState(FALSE, isListening))
            /\ UNCHANGED << restartTimeoutRef, restartTimers >>
    /\ event' = << "onend" >>
    /\ recCalls' = << >>
    /\ hostCalls' = << >>
    /\ synthCalls' = << >>
    /\ UNCHANGED << isSpeaking, lastCommand, commandHistory, isSupported,
                    errorMessage, permissionStatus, recognitionRef, synthRef,
                    mounted, synthQueue, uttStarted, platformPerm,
                    permissionQuery, processingTimers, arrived, listening >>

\* OnEnd with the timer set before the test of line 285
OnEnd_AlwaysSchedules ==
    /\ recState # "inactive"
    /\ recState' = "inactive"
    /\ restartTimeoutRef' = "pending"
    /\ restartTimers' = restartTimers + 1
    /\ IF shouldRestartRef /\ ClosureIsListening
       THEN /\ shouldRestartRef' = SyncRestartRef(shouldRestartRef, isListening)
            /\ UNCHANGED << isListening, microphoneStatus >>
       ELSE /\ isListening' = SetState(FALSE, isListening)
            /\ microphoneStatus' = SetState("idle", microphoneStatus)
            /\ shouldRestartRef' = SyncRestartRef(FALSE, SetState(FALSE, isListening))
    /\ event' = << "onend" >>
    /\ recCalls' = << >>
    /\ hostCalls' = << >>
    /\ synthCalls' = << >>
    /\ UNCHANGED << isSpeaking, lastCommand, commandHistory, isSupported,
                    errorMessage, permissionStatus, recognitionRef, synthRef,
                    mounted, synthQueue, uttStarted, platformPerm,
                    permissionQuery, processingTimers, arrived >>
    /\ UNCHANGED listening

\* recognition.onend, lines 283-304
OnEnd ==
    /\ recState # "inactive"
    /\ recState' = "inactive"
    /\ IF shouldRestartRef /\ ClosureIsListening
       THEN \* lines 287-298: schedule the restart
            /\ restartTimeoutRef' = "pending"
            /\ restartTimers' = restartTimers + 1
            /\ shouldRestartRef' = SyncRestartRef(shouldRestartRef, isListening)
            /\ UNCHANGED << isListening, microphoneStatus >>
       ELSE \* lines 299-303
            /\ isListening' = SetState(FALSE, isListening)
            /\ microphoneStatus' = SetState("idle", microphoneStatus)
            /\ shouldRestartRef' = SyncRestartRef(FALSE, SetState(FALSE, isListening))
            /\ UNCHANGED << restartTimeoutRef, restartTimers >>
    /\ event' = << "onend" >>
    /\ recCalls' = << >>
    /\ hostCalls' = << >>
    /\ synthCalls' = << >>
    /\ UNCHANGED << isSpeaking, lastCommand, commandHistory, isSupported,
                    errorMessage, permissionStatus, recognitionRef, synthRef,
                    mounted, synthQueue, uttStarted, platformPerm,
                    permissionQuery, processingTimers, arrived >>
    /\ UNCHANGED listening

\* the restart timer callback, lines 287-298; timers of equal delay fire in
\* the order they were set, and restartTimeoutRef holds the last one set.
\* It is enabled only with a timer pending, and NoRestartTimer below shows
\* that none ever is, so the next-state relations leave it out.
RestartTimerFires ==
    /\ restartTimers > 0
    /\ restartTimers' = restartTimers - 1
    /\ restartTimeoutRef' =
           IF restartTimers = 1 /\ restartTimeoutRef = "pending"
           THEN "done" ELSE restartTimeoutRef
    /\ IF shouldRestartRef /\ ClosureIsListening
       THEN IF recState = "inactive"
            THEN /\ recCalls' = << "start" >>
                 /\ recState' = "starting"
                 /\ shouldRestartRef' = SyncRestartRef(shouldRestartRef, isListening)
                 /\ UNCHANGED << microphoneStatus, isListening >>
            ELSE /\ recCalls' = << "start-raised" >>
                 /\ microphoneStatus' = SetState("error", microphoneStatus)
                 /\ isListening' = SetState(FALSE, isListening)
                 /\ shouldRestartRef' = SyncRestartRef(FALSE, SetState(FALSE, isListening))
                 /\ UNCHANGED recState
       ELSE /\ recCalls' = << >>
            /\ shouldRestartRef' = SyncRestartRef(shouldRestartRef, isListening)
            /\ UNCHANGED << microphoneStatus, isListening, recState >>
    /\ event' = << "restart-timer" >>
    /\ hostCalls' = << >>
    /\ synthCalls' = << >>
    /\ UNCHANGED << isSpeaking, lastCommand, commandHistory, isSupported,
                    errorMessage, permissionStatus, recognitionRef, synthRef,
                    mounted, synthQueue, uttStarted, platformPerm,
                    permissionQuery, processingTimers, arrived >>
    /\ UNCHANGED listening

-----------------------------------------------------------------------------
(* The speech-output capability and toggleSpeaking, lines 377-386, 425-430 *)

\* utterance.onstart of the utterance at the head of the queue, line 380
UtteranceStart ==
    /\ Len(synthQueue) > 0
    /\ ~uttStarted
    /\ uttStarted' = TRUE
    /\ isSpeaking' = SetState(TRUE, isSpeaking)
    /\ event' = << "utterance-start" >>
    /\ recCalls' = << >>
    /\ hostCalls' = << >>
    /\ synthCalls' = << >>
    /\ UNCHANGED << isListening, microphoneStatus, lastCommand, commandHistory,
                    isSupported, errorMessage, permissionStatus, recognitionRef,
                    synthRef, shouldRestartRef, restartTimeoutRef, mounted,
                    restartTimers, recState, synthQueue, platformPerm,
                    permissionQuery, processingTimers, arrived >>
    /\ UNCHANGED listening

\* utterance.onend (line 381) or utterance.onerror (line 382) of the head:
\* the capability goes on to the next queued utterance
UtteranceDone(how) ==
    /\ Len(synthQueue) > 0
    /\ how = "end" => uttStarted
    /\ synthQueue' = Tail(synthQueue)
    /\ uttStarted' = FALSE
    /\ isSpeaking' = SetState(FALSE, isSpeaking)
    /\ event' = << "utterance-done", how >>
    /\ recCalls' = << >>
    /\ hostCalls' = << >>
    /\ synthCalls' = << >>
    /\ UNCHANGED << isListening, microphoneStatus, lastCommand, commandHistory,
                    isSupported, errorMessage, permissionStatus, recognitionRef,
                    synthRef, shouldRestartRef, restartTimeoutRef, mounted,
                    restartTimers, recState, platformPerm, permissionQuery,
                    processingTimers, arrived >>
    /\ UNCHANGED listening

\* toggleSpeaking, lines 425-430: cancel() empties the capability's queue;
\* its button is rendered only when supported (lines 490-501)
ToggleSpeaking ==
    /\ mounted
    /\ isSupported
    /\ IF synthRef # "null" /\ isSpeaking
       THEN /\ synthCalls' = << << "cancel" >> >>
            /\ synthQueue' = << >>
            /\ uttStarted' = FALSE
            /\ isSpeaking' = FALSE
       ELSE /\ synthCalls' = << >>
            /\ UNCHANGED << synthQueue, uttStarted, isSpeaking >>
    /\ event' = << "toggleSpeaking" >>
    /\ recCalls' = << >>
    /\ hostCalls' = << >>
    /\ UNCHANGED << isListening, microphoneStatus, lastCommand, commandHistory,
                    isSupported, errorMessage, permissionStatus, recognitionRef,
                    synthRef, shouldRestartRef, restartTimeoutRef, mounted,
                    restartTimers, recState, platformPerm, permissionQuery,
                    processingTimers, arrived >>
    /\ UNCHANGED listening

-----------------------------------------------------------------------------
(* Specifications *)

\* the session of the mounted component: every handler, a few transcripts
Next ==
    \/ PermissionQuerySettles
    \/ \E s \in { "granted", "denied", "prompt" } : PermissionChange(s)
    \/ ClickVoiceButton
    \/ OnStart
    \/ \E t \in Texts : Len(arrived) < MaxTranscripts /\ OnResult(t)
    \/ ProcessingTimeout
    \/ \E code \in ErrorCodes : OnError(code)
    \/ OnEnd
    \/ UtteranceStart
    \/ \E how \in { "end", "error" } : UtteranceDone(how)
    \/ ToggleSpeaking

Spec == Init /\ [][Next]_vars

\* command handling: every transcript of AllTexts, delivered to a session the
\* user starts and stops, before the speech capability finishes an utterance
NextCommands ==
    \/ ClickVoiceButton
    \/ OnStart
    \/ \E t \in AllTexts : Len(arrived) < MaxCmdTranscripts /\ OnResult(t)

SpecCommands == Init /\ [][NextCommands]_vars

\* the history: more transcripts than the history holds
NextHistory ==
    \/ ClickVoiceButton
    \/ OnStart
    \/ \E t \in HistTexts : Len(arrived) < MaxHistTranscripts /\ OnResult(t)
    \/ OnEnd

SpecHistory == Init /\ [][NextHistory]_vars

\* teardown: the session, the cleanup at any moment, and the capability
\* callbacks that arrive after it
NextTeardown ==
    \/ ClickVoiceButton
    \/ OnStart
    \/ \E t \in Texts : Len(arrived) < MaxTeardownTranscripts /\ OnResult(t)
    \/ \E code \in ErrorCodes : OnError(code)
    \/ OnEnd
    \/ UtteranceStart
    \/ \E raises \in { "none", "stop", "cancel" } : Unmount(raises)

SpecTeardown == Init /\ [][NextTeardown]_vars

\* the session without transcripts, toggleListening called as a function:
\* the view's guards on its button (not rendered, disabled) are left aside,
\* so the function's own tests of lines 389 and 405 decide
NextDirect ==
    \/ PermissionQuerySettles
    \/ \E s \in { "granted", "denied", "prompt" } : PermissionChange(s)
    \/ ToggleListening
    \/ OnStart
    \/ \E code \in ErrorCodes : OnError(code)
    \/ OnEnd
    \/ \E raises \in { "none", "stop", "cancel" } : Unmount(raises)

SpecDirect == Init /\ [][NextDirect]_vars

-----------------------------------------------------------------------------
(* The wrapper-based variant, src/unnamed/part_001 *)

\* the state after the first render, lines 11-21: the four useState values
\* and the hook's `listening`; the variant has no refs, status, message or
\* permission state, which keep the values below throughout
InitWrapper ==
    /\ isListening = FALSE
    /\ isSpeaking = FALSE
    /\ lastCommand = ""
    /\ commandHistory = << >>
    /\ listening = FALSE
    /\ microphoneStatus = "idle"
    /\ isSupported = TRUE
    /\ errorMessage = ""
    /\ permissionStatus = "unknown"
    /\ recognitionRef = "null"
    /\ synthRef = "null"
    /\ shouldRestartRef = FALSE
    /\ restartTimeoutRef = "null"
    /\ mounted = TRUE
    /\ restartTimers = 0
    /\ recState = "inactive"
    /\ synthQueue = << >>
    /\ uttStarted = FALSE
    /\ platformPerm = "prompt"
    /\ permissionQuery = "none"
    /\ processingTimers = 0
    /\ event = << "mount" >>
    /\ recCalls = << >>
    /\ hostCalls = << >>
    /\ synthCalls = << >>
    /\ arrived = << >>

\* what no action of the wrapper variant touches
WrapperFrame ==
    UNCHANGED << isSpeaking, microphoneStatus, isSupported, errorMessage,
                 permissionStatus, recognitionRef, synthRef, shouldRestartRef,
                 restartTimeoutRef, mounted, restartTimers, recState, synthQueue,
                 uttStarted, platformPerm, permissionQuery, processingTimers >>

\* toggleListening of the wrapper variant, lines 62-70: the hook's stop()
\* clears its flag and its listen() sets it
WrapperToggleListening ==
    /\ IF listening
       THEN /\ recCalls' = << "stop" >>
            /\ listening' = FALSE
            /\ isListening' = FALSE
       ELSE /\ recCalls' = << "listen" >>
            /\ listening' = TRUE
            /\ isListening' = TRUE
    /\ event' = << "wrapper-toggle" >>
    /\ hostCalls' = << >>
    /\ synthCalls' = << >>
    /\ UNCHANGED << lastCommand, commandHistory, arrived >>
    /\ WrapperFrame

\* the hook's onResult (lines 18-20) with handleVoiceCommand (27-56) and
\* speakResponse (58-60)
WrapperOnResult(result) ==
    /\ listening
    /\ lastCommand' = result
    /\ commandHistory' = HistoryInsert(commandHistory, result)
    /\ LET lowerCommand == toLowerCase(result)
           branch == CommandBranch(lowerCommand)
       IN  /\ hostCalls' = BranchHostCalls(branch)
           /\ synthCalls' = << << "speak", BranchPhrase(branch) >> >>
    /\ event' = << "wrapper-result", result >>
    /\ recCalls' = << >>
    /\ arrived' = Append(arrived, result)
    /\ UNCHANGED << isListening, listening >>
    /\ WrapperFrame

\* the hook re-renders the component with `listening` false without a call
\* of toggleListening: the capability ended listening on its own.  The
\* component has no effect or callback on `listening` (lines 11-25), so
\* nothing else changes
WrapperListeningEnds ==
    /\ listening
    /\ listening' = FALSE
    /\ event' = << "wrapper-end" >>
    /\ recCalls' = << >>
    /\ hostCalls' = << >>
    /\ synthCalls' = << >>
    /\ UNCHANGED << isListening, lastCommand, commandHistory, arrived >>
    /\ WrapperFrame

NextWrapper ==
    \/ WrapperToggleListening
    \/ \E t \in Texts : Len(arrived) < MaxWrapperTranscripts /\ WrapperOnResult(t)
    \/ WrapperListeningEnds

SpecWrapper == InitWrapper /\ [][NextWrapper]_vars

-----------------------------------------------------------------------------
(* Properties of the model *)

\* onend never schedules the restart timer, so RestartTimerFires is never
\* enabled
NoRestartTimer == restartTimeoutRef = "null"

-----------------------------------------------------------------------------
(* What the specification says, for the claims below *)

\* the permission-class error codes of the specification
FatalCodes == { "not-allowed", "service-not-allowed" }

\* the rule table of the specification, section 4.3, in declaration order
RuleTable ==
    << [triggers |-> { "place cone", "add cone" }, token |-> "place-cone",
        params |-> << <<"type", "warning">> >>],
       [triggers |-> { "draw line", "create barrier" }, token |-> "start-line",
        params |-> << <<"type", "barrier">> >>],
       [triggers |-> { "optimize", "improve" }, token |-> "optimize-zone",
        params |-> << >>],
       [triggers |-> { "weather", "forecast" }, token |-> "check-weather",
        params |-> << >>],
       [triggers |-> { "traffic", "congestion" }, token |-> "analyze-traffic",
        params |-> << >>],
       [triggers |-> { "save", "export" }, token |-> "save-zone",
        params |-> << >>],
       [triggers |-> { "help", "commands" }, token |-> "help",
        params |-> << >>] >>

\* the rules a text matches, case-insensitively
MatchingRules(text) ==
    LET lower == toLowerCase(text)
    IN  { i \in 1..Len(RuleTable) :
            \E trig \in RuleTable[i].triggers : includes(lower, trig) }

\* the lowest-ordered matching rule, 0 when no rule matches
FirstRule(text) ==
    LET matching == MatchingRules(text)
    IN  IF matching = {} THEN 0
        ELSE CHOOSE i \in matching : \A j \in matching : i <= j

ExpectedToken(text) ==
    LET first == FirstRule(text)
    IN  IF first = 0 THEN "unrecognized" ELSE RuleTable[first].token

HelpListing ==
    "Available commands: place cone, draw line, optimize zone, check weather, analyze traffic, save zone"

FallbackPrompt ==
    "Command not recognized. Say help for available commands."

\* the token the last transcript handler resolved to, as the host and the
\* speech capability saw it
ObservedToken ==
    IF hostCalls # << >> THEN hostCalls[1].command
    ELSE IF synthCalls = << << "speak", HelpListing >> >> THEN "help"
    ELSE "unrecognized"

\* the last handler was onresult
ResultHandled == event[1] = "onresult"

\* the most recent n elements of a sequence, newest first
RECURSIVE NewestFirst(_, _)
NewestFirst(a, n) ==
    IF n = 0 \/ Len(a) = 0 THEN << >>
    ELSE << a[Len(a)] >> \o NewestFirst(SubSeq(a, 1, Len(a) - 1), n - 1)

-----------------------------------------------------------------------------
(* Claims *)

\* C1: every `end` handled while shouldRestart is true (no fatal error, no
\* user stop) schedules one restart and keeps the session listening.
\* The code does not: violated.
C1_EndSchedulesRestart ==
    [][ (event' = << "onend" >> /\ shouldRestartRef)
            => (restartTimeoutRef' = "pending" /\ shouldRestartRef' /\ isListening') ]_vars

\* C2: when the permission monitor reports Denied while the session is
\* Listening, stop() is called exactly once and the state becomes
\* PermissionDenied.  The code does neither: violated.
C2_DeniedStopsSession ==
    [][ (event' = << "permission-change", "denied" >>
            /\ permissionQuery = "subscribed" /\ microphoneStatus = "listening")
            => (recCalls' = << "stop" >> /\ microphoneStatus' = "permission-denied") ]_vars

\* C3: a fatal permission-class error received while Listening or Processing
\* makes the session state PermissionDenied.  The code sets 'error': violated.
C3_FatalErrorStatus ==
    [][ (event' \in { << "onerror", c >> : c \in FatalCodes }
            /\ microphoneStatus \in { "listening", "processing" })
            => microphoneStatus' = "permission-denied" ]_vars

\* C4: a fatal permission-class error leaves shouldRestart false, and from
\* then on no handler but the user's toggle sets it or calls start(): no
\* `end` event and no restart timer restarts the session.
C4_NoRestartAfterFatal ==
    /\ [](event \in { << "onerror", c >> : c \in FatalCodes } => ~shouldRestartRef)
    /\ [][ (~shouldRestartRef /\ event' # << "toggleListening" >>)
               => (~shouldRestartRef' /\ recCalls' = << >>) ]_vars

\* a later spontaneous `end` after a fatal error, which started nothing
C4_Witness ==
    /\ event = << "onend" >>
    /\ errorMessage = "Microphone access denied. Please enable microphone permissions."
    /\ permissionStatus = "denied"
    /\ recCalls = << >>
    /\ ~shouldRestartRef
    /\ recState = "inactive"

\* C5: commandHistory is the most recent min(n, 5) transcripts, newest
\* first, so it never holds more than 5 and a full history drops its oldest.
C5_HistoryNewestFirst ==
    /\ Len(commandHistory) <= 5
    /\ commandHistory = NewestFirst(arrived, 5)

\* six transcripts arrived, the oldest was dropped
C5_Witness ==
    /\ Len(arrived) = 6
    /\ Len(commandHistory) = 5
    /\ arrived[1] = "save"
    /\ \A i \in 1..5 : commandHistory[i] = "hello"

\* C6: the token a transcript resolves to is that of the lowest-ordered
\* matching rule of the table, `unrecognized` exactly when no rule matches,
\* in every session state and with every history.
C6_LowestRuleWins ==
    ResultHandled => ObservedToken = ExpectedToken(event[2])

\* a text with triggers of rules 7 and 1, in that order, resolved to rule 1
C6_Witness ==
    /\ event = << "onresult", "help me place cone" >>
    /\ MatchingRules(event[2]) = { 1, 7 }
    /\ ObservedToken = "place-cone"
    /\ ~isListening
    /\ Len(commandHistory) = 2

\* C7: at most one utterance is active or pending in the speech-output
\* capability.  speakResponse never cancels, so utterances queue: violated.
C7_AtMostOneUtterance ==
    Len(synthQueue) <= 1

\* C8: a transcript whose first matching rule is one of rules 1-6 invokes
\* the host callback exactly once, with that rule's token and params, and
\* speaks exactly one acknowledgment; no transcript invokes it twice.
C8_HostCalledOnce ==
    /\ Len(hostCalls) <= 1
    /\ ResultHandled =>
           LET first == FirstRule(event[2])
           IN  /\ first \in 1..6 =>
                      /\ hostCalls = << [command |-> RuleTable[first].token,
                                         params |-> RuleTable[first].params] >>
                      /\ Len(synthCalls) = 1
                      /\ synthCalls[1][1] = "speak"
                      /\ synthCalls[1][2] \notin { HelpListing, FallbackPrompt }
               /\ first = 1 =>
                      synthCalls = << << "speak", "Placing warning cone at current location" >> >>

\* "draw line" reached the host as start-line with { type: barrier }
C8_Witness ==
    /\ event = << "onresult", "draw line" >>
    /\ hostCalls = << [command |-> "start-line",
                       params |-> << <<"type", "barrier">> >>] >>
    /\ synthCalls = << << "speak", "Starting line drawing mode" >> >>

\* C9: a transcript resolving to `help` speaks the command listing and is
\* prepended to commandHistory, and the host callback is not invoked.
C9_HelpNotForwarded ==
    [][ (event'[1] = "onresult" /\ ExpectedToken(event'[2]) = "help")
            => /\ hostCalls' = << >>
               /\ synthCalls' = << << "speak", HelpListing >> >>
               /\ Len(commandHistory') > 0
               /\ Head(commandHistory') = event'[2]
               /\ Tail(commandHistory')
                      = SubSeq(commandHistory, 1, Len(commandHistory') - 1)
               /\ Len(commandHistory') >= Len(commandHistory)
               /\ lastCommand' = event'[2] ]_vars

\* "can you help" after another transcript: spoken, recorded, not forwarded
C9_Witness ==
    /\ event = << "onresult", "can you help" >>
    /\ hostCalls = << >>
    /\ synthCalls = << << "speak", HelpListing >> >>
    /\ commandHistory = << "can you help", "SAVE" >>

\* C10: a transcript matching no rule is not forwarded to the host, is
\* recorded in commandHistory and speaks the fallback prompt; it neither
\* puts the session in Error nor stops it.
C10_UnrecognizedHarmless ==
    [][ (event'[1] = "onresult" /\ ExpectedToken(event'[2]) = "unrecognized")
            => /\ hostCalls' = << >>
               /\ synthCalls' = << << "speak", FallbackPrompt >> >>
               /\ Len(commandHistory') > 0
               /\ commandHistory'[1] = event'[2]
               /\ microphoneStatus' # "error"
               /\ recCalls' = << >>
               /\ isListening' = isListening
               /\ shouldRestartRef' = shouldRestartRef
               /\ recState' = recState
               /\ errorMessage' = errorMessage ]_vars

\* "hello" handled in a listening session, which goes on
C10_Witness ==
    /\ event = << "onresult", "hello" >>
    /\ hostCalls = << >>
    /\ synthCalls = << << "speak", FallbackPrompt >> >>
    /\ commandHistory = << "hello" >>
    /\ isListening
    /\ shouldRestartRef
    /\ recState = "active"

\* the user-visible message of toggleListening's permission branch, line 406
BrowserSettingsMessage ==
    "Microphone access denied. Please enable microphone permissions in your browser settings."

\* the last handler was recognition.onerror with a permission-class code
FatalErrorHandled ==
    event[1] = "onerror" /\ event[2] \in FatalCodes

\* C11: teardown while the session is Listening calls the capability stop()
\* once, leaves shouldRestart false and no restart timer pending, and no
\* capability call at all, so no start(), is made after it, whatever
\* callbacks arrive later.
C11_TeardownStopsForGood ==
    /\ [][ (event'[1] = "unmount" /\ microphoneStatus = "listening")
               => /\ Len(recCalls') = 1
                  /\ recCalls'[1] \in { "stop", "stop-raised" }
                  /\ ~shouldRestartRef'
                  /\ (event'[2] = "none" =>
                          recCalls' = << "stop" >> /\ restartTimers' = 0) ]_vars
    /\ []((~mounted /\ event[1] # "unmount") => (recCalls = << >> /\ ~shouldRestartRef))
    /\ [][ ~mounted => ~mounted' ]_vars

\* torn down while listening, then an `end` arrived and started nothing
C11_Witness ==
    /\ ~mounted
    /\ microphoneStatus = "listening"
    /\ isListening
    /\ event = << "onend" >>
    /\ recState = "inactive"
    /\ recCalls = << >>
    /\ restartTimers = 0

\* C12: on teardown recognition stop(), speech-output cancel and the timer
\* cancellation all happen, even if one of them raises.  The cleanup is
\* straight-line code: a raising stop() skips the other two: violated.
C12_AllReleasesHappen ==
    (event[1] = "unmount" /\ isSupported)
        => /\ Len(recCalls) = 1
           /\ Len(synthCalls) = 1
           /\ restartTimeoutRef # "pending"

C14_DeniedBlocksStart ==
    /\ [][ recCalls' \in { << "start" >>, << "start-raised" >> }
               => permissionStatus # "denied" ]_vars
    /\ [][ (event' = << "toggleListening" >> /\ isSupported /\ ~isListening
               /\ permissionStatus = "denied")
               => /\ recCalls' = << >>
                  /\ ~shouldRestartRef'
                  /\ ~isListening'
                  /\ errorMessage' = BrowserSettingsMessage
                  /\ UNCHANGED << microphoneStatus, recState, permissionStatus,
                                  restartTimeoutRef, restartTimers >> ]_vars

\* toggleListening called with the permission Denied and the session stopped
C14_Witness ==
    /\ event = << "toggleListening" >>
    /\ permissionStatus = "denied"
    /\ errorMessage = BrowserSettingsMessage
    /\ ~isListening
    /\ ~shouldRestartRef
    /\ recCalls = << >>
    /\ recState = "inactive"

\* C15: after a transcript is handled in an active session the status
\* returns from Processing to Listening when the acknowledgment delay
\* expires.  The timeout callback reads the isListening of the first
\* render and does nothing: violated.
C15_ReturnsToListening ==
    [][ (event' = << "processing-timeout" >> /\ microphoneStatus = "processing"
            /\ isListening /\ shouldRestartRef)
            => microphoneStatus' = "listening" ]_vars

\* C16: a recognition error whose code is not permission-class calls no
\* capability stop(), leaves shouldRestart, the listening intent and the
\* timers unchanged, and changes only the status (to error) and the error
\* message.
C16_RecoverableErrorFrame ==
    [][ (event'[1] = "onerror" /\ event'[2] \notin FatalCodes)
            => /\ recCalls' = << >>
               /\ microphoneStatus' = "error"
               /\ errorMessage' = ErrorText(event'[2])
               /\ errorMessage' # ""
               /\ UNCHANGED << isListening, shouldRestartRef, restartTimeoutRef,
                               restartTimers, processingTimers, recState,
                               permissionStatus, isSpeaking, lastCommand,
                               commandHistory, synthQueue, recognitionRef >> ]_vars

\* a network error arrived in a running session, which keeps running
C16_Witness ==
    /\ event = << "onerror", "network" >>
    /\ isListening
    /\ shouldRestartRef
    /\ microphoneStatus = "error"
    /\ errorMessage = "Network error. Please check your internet connection."
    /\ recState = "active"

\* C17: when the capabilities are absent at initialization no recognition
\* handle exists and no capability call is ever made, whatever is attempted.
C17_UnsupportedNeverStarts ==
    ~isSupported
        => /\ recognitionRef = "null"
           /\ synthRef = "null"
           /\ recState = "inactive"
           /\ recCalls = << >>
           /\ ~isListening
           /\ ~shouldRestartRef
           /\ microphoneStatus = "idle"

\* toggleListening was called in an unsupported environment
C17_Witness ==
    /\ ~isSupported
    /\ event = << "toggleListening" >>
    /\ recCalls = << >>
    /\ recState = "inactive"

C19_FatalErrorStops ==
    FatalErrorHandled
        => /\ recCalls = << "stop" >>
           /\ ~shouldRestartRef
           /\ restartTimers = 0

\* C20: at most one restart timer is pending in every reachable state.
C20_AtMostOneRestartTimer ==
    /\ restartTimers <= 1
    /\ (restartTimeoutRef = "pending" => restartTimers = 1)

\* an `end` was handled after a no-speech error in a session the user
\* had started and not stopped
C20_Witness ==
    /\ event = << "onend" >>
    /\ errorMessage = "No speech detected. Try speaking closer to the microphone."
    /\ permissionStatus # "denied"
    /\ recState = "inactive"
    /\ restartTimers = 0
    /\ restartTimeoutRef # "pending"

\* a call of the capability's start(), accepted or raising
StartCalls == { << "start" >>, << "start-raised" >> }

\* C21: start() is never called while the capability is still active from a
\* previous start(), before its `end` was delivered.  toggleListening calls
\* start() whenever isListening is false, whatever the capability does:
\* violated.
C21_OneStartOutstanding ==
    [][ recCalls' \in StartCalls => recState = "inactive" ]_vars

\* C22: no restart happens once the user has stopped: an `end` handled
\* after the stop schedules no timer and calls no start(), the stop leaves
\* no timer pending, and only the user's next toggle calls start() again.
C22_NoRestartAfterStop ==
    /\ [][ (event' = << "onend" >> /\ ~isListening /\ ~shouldRestartRef)
               => /\ restartTimers' = restartTimers
                  /\ restartTimeoutRef' = restartTimeoutRef
                  /\ recCalls' = << >>
                  /\ ~shouldRestartRef' ]_vars
    /\ [][ (event' = << "toggleListening" >> /\ isListening)
               => (restartTimers' = 0 /\ restartTimeoutRef' # "pending") ]_vars
    /\ [][ recCalls' \in StartCalls => event' = << "toggleListening" >> ]_vars

\* a transcript was handled, the session is stopped and its `end` was
\* handled: nothing is scheduled
C22_Witness ==
    /\ event = << "onend" >>
    /\ lastCommand # ""
    /\ ~isListening
    /\ ~shouldRestartRef
    /\ microphoneStatus = "idle"
    /\ recState = "inactive"
    /\ restartTimers = 0
    /\ restartTimeoutRef = "null"

\* C23: handling an `end` while shouldRestart is false leaves the status
\* idle, schedules no restart timer and calls no start().
C23_EndWithoutRestartIsIdle ==
    [][ (event' = << "onend" >> /\ ~shouldRestartRef)
            => /\ microphoneStatus' = "idle"
               /\ ~isListening'
               /\ ~shouldRestartRef'
               /\ restartTimers' = restartTimers
               /\ restartTimeoutRef' = restartTimeoutRef
               /\ recCalls' = << >> ]_vars

\* the `end` that follows a permission-class error took the status from
\* error to idle
C23_Witness ==
    /\ event = << "onend" >>
    /\ permissionStatus = "denied"
    /\ errorMessage = "Microphone access denied. Please enable microphone permissions."
    /\ microphoneStatus = "idle"
    /\ ~shouldRestartRef
    /\ recState = "inactive"
    /\ restartTimers = 0

\* C24: shouldRestart becomes true only by a user start, and false only by
\* a user stop, a failed start or a permission-class error; a natural `end`
\* or a recoverable error never clears it.  onend clears it on every `end`:
\* violated.
C24_GuardFollowsIntent ==
    [][ /\ (~shouldRestartRef /\ shouldRestartRef')
               => (event' = << "toggleListening" >> /\ recCalls' = << "start" >>)
        /\ (shouldRestartRef /\ ~shouldRestartRef')
               => \/ event' = << "toggleListening" >>
                  \/ (event'[1] = "onerror" /\ event'[2] \in FatalCodes) ]_vars

\* the edges of the session state machine, as pairs of statuses
StatusEdges ==
    { << "idle", "listening" >>, << "listening", "processing" >>,
      << "processing", "listening" >>,
      << "listening", "error" >>, << "processing", "error" >>,
      << "listening", "permission-denied" >>,
      << "processing", "permission-denied" >>,
      << "listening", "idle" >>, << "processing", "idle" >>,
      << "error", "idle" >>,
      << "error", "listening" >>, << "permission-denied", "listening" >> }

\* C25: every change of the status follows an edge of the state machine,
\* and the status leaves idle only by a user start (a start() that raises
\* is left to C27).  A callback delivered after the user stopped moves the
\* status from idle to error, listening or processing: violated.
C25_OnlySpecifiedEdges ==
    [][ microphoneStatus' # microphoneStatus
            => \/ recCalls' = << "start-raised" >>
               \/ /\ << microphoneStatus, microphoneStatus' >> \in StatusEdges
                  /\ (microphoneStatus = "idle" => event' = << "toggleListening" >>) ]_vars

\* C26: commandHistory and lastCommand are changed only by the handling of
\* a transcript; every other handler leaves both unchanged.
C26_HistoryOwnedByTranscripts ==
    [][ (commandHistory' # commandHistory \/ lastCommand' # lastCommand)
            => /\ event'[1] = "onresult"
               /\ lastCommand' = event'[2]
               /\ commandHistory' = HistoryInsert(commandHistory, event'[2]) ]_vars

\* the user stopped the session after a transcript: both are still there
C26_Witness ==
    /\ event = << "toggleListening" >>
    /\ recCalls = << "stop" >>
    /\ lastCommand = "Add Cone"
    /\ commandHistory = << "Add Cone" >>

\* C27: when the capability's start() raises the session is left stopped
\* and in error: status error, isListening false, shouldRestart false and
\* no restart timer pending.
C27_FailedStartStops ==
    [][ recCalls' = << "start-raised" >>
            => /\ microphoneStatus' = "error"
               /\ ~isListening'
               /\ ~shouldRestartRef'
               /\ restartTimers' = 0
               /\ restartTimeoutRef' # "pending" ]_vars

\* start() raised on a capability that had not ended its previous turn
C27_Witness ==
    /\ event = << "toggleListening" >>
    /\ recCalls = << "start-raised" >>
    /\ microphoneStatus = "error"
    /\ errorMessage = "Failed to start voice recognition. Please try again."
    /\ ~isListening
    /\ ~shouldRestartRef
    /\ recState # "inactive"

\* C28: while the component is mounted, shouldRestartRef.current equals
\* isListening after every handler and the effects it triggers.
C28_GuardEqualsFlag ==
    mounted => (shouldRestartRef = isListening)

\* a permission-class error cleared both in a session the user had started
C28_Witness ==
    /\ event = << "onerror", "service-not-allowed" >>
    /\ mounted
    /\ ~isListening
    /\ ~shouldRestartRef
    /\ recState = "active"
    /\ permissionStatus = "denied"

\* C29: microphoneStatus is 'listening' or 'processing' only while
\* isListening is true, also when a callback arrives after the user
\* stopped.  onstart and onresult set the status unconditionally: violated.
C29_StatusFollowsFlag ==
    microphoneStatus \in { "listening", "processing" } => isListening

\* C30: in the wrapper variant the displayed isListening equals the
\* wrapper's listening flag after every toggleListening call and after
\* every end of listening the capability initiates.  Nothing copies the
\* flag when the capability ends listening: violated.
C30_DisplayedFollowsWrapper ==
    event[1] \in { "wrapper-toggle", "wrapper-end" } => (isListening = listening)

====
